---- MODULE Spec2Model ----
(***************************************************************************)
(* Model of the Compliance Assistant Bot (src/app.py) and of its           *)
(* environment diagnostic script (src/test.py).                            *)
(*                                                                         *)
(* Representation.  A Python str is a sequence of tokens; the empty str    *)
(* is <<>>, concatenation and f-string interpolation are \o, and a str is  *)
(* truthy iff it is not <<>>.  Credential values are spelled character by  *)
(* character so that slicing ([-4:]) and len() act on characters.  An      *)
(* Optional value is None (<<>>) or Some(v) (<<v>>).                       *)
(***************************************************************************)
EXTENDS Integers, Sequences, FiniteSets, TLC

VARIABLES
    env,              \* process environment: variable name -> Optional str
    printed,          \* lines written to stdout so far (print), oldest first
    logged,           \* lines written through logger.info / logger.error
    bot,              \* fields of the ComplianceAssistantBot instance
    pc,               \* position of the running entry point
    caller,           \* who invoked get_compliance_answer: "direct" or "lambda"
    question,         \* get_compliance_answer: parameter question
    use_rag,          \* get_compliance_answer: parameter use_rag
    kendra_response,  \* outcome of kendra_client.query, once it has returned
    kendra_results,   \* get_compliance_answer: local kendra_results
    context,          \* get_compliance_answer: local context
    rag_used,         \* get_compliance_answer: local rag_used
    prompt,           \* get_compliance_answer: local prompt
    bedrock_response, \* outcome of bedrock_client.invoke_model, once returned
    result,           \* value returned by get_compliance_answer
    calls,            \* remote calls issued so far, oldest first
    clock,            \* wall clock read by datetime.now()
    event,            \* lambda_handler: parameter event
    response,         \* value returned by lambda_handler
    caught,           \* exception caught by lambda_handler's except clause
    diagnostic,       \* value returned by test_environment_variables, once run
    consumed,         \* cli_interface: lines returned by input() so far
    asked,            \* calls of get_compliance_answer so far: question, use_rag
    raised            \* exception that escaped the entry point, if any

vars == <<env, printed, logged, bot, pc, caller, question, use_rag,
          kendra_response, kendra_results, context, rag_used, prompt,
          bedrock_response, result, calls, clock, event, response, caught,
          diagnostic, consumed, asked, raised>>

pipeline_vars == <<caller, question, use_rag, kendra_response, kendra_results,
                   context, rag_used, prompt, bedrock_response, result, calls,
                   clock, asked>>

lambda_vars == <<event, response, caught>>

cli_vars == <<consumed>>

-----------------------------------------------------------------------------
(* Bounds of the model *)

\* longest ResultItems list the search service returns in the model
MaxItems == 4

\* the largest number of lines read by the interactive loop
MaxLines == 3

-----------------------------------------------------------------------------
(* Python values *)

None == <<>>
Some(v) == <<v>>
IsNone(o) == o = <<>>
Get(o) == o[1]

\* truthiness of an Optional[str]: None and '' are falsy
Truthy(o) == ~IsNone(o) /\ Get(o) # <<>>

\* s[-n:] for n > 0
LastN(s, n) == IF Len(s) <= n THEN s ELSE SubSeq(s, Len(s) - n + 1, Len(s))

\* s[:n]
FirstN(s, n) == IF Len(s) <= n THEN s ELSE SubSeq(s, 1, n)

\* sub occurs in s as a contiguous run of tokens
Contains(s, sub) ==
    \E i \in 0..(Len(s) - Len(sub)) :
        \A j \in 1..Len(sub) : s[i + j] = sub[j]

RECURSIVE Join(_, _)
\* sep.join(ss)
Join(sep, ss) ==
    IF ss = <<>> THEN <<>>
    ELSE IF Len(ss) = 1 THEN Head(ss)
    ELSE Head(ss) \o sep \o Join(sep, Tail(ss))

Digits == <<"0", "1", "2", "3", "4", "5", "6", "7", "8", "9">>
IsDigit(c) == \E i \in 1..10 : Digits[i] = c
DigitVal(c) == (CHOOSE i \in 1..10 : Digits[i] = c) - 1

RECURSIVE DigitsValue(_)
DigitsValue(s) ==
    IF s = <<>> THEN 0
    ELSE 10 * DigitsValue(SubSeq(s, 1, Len(s) - 1)) + DigitVal(s[Len(s)])

RECURSIVE Pow10(_)
Pow10(n) == IF n = 0 THEN 1 ELSE 10 * Pow10(n - 1)

AllDigits(s) == s # <<>> /\ \A i \in 1..Len(s) : IsDigit(s[i])

\* int(s) on an unsigned decimal literal; anything else raises ValueError
ParseInt(s) ==
    IF AllDigits(s) THEN [ok |-> TRUE, val |-> DigitsValue(s)]
    ELSE [ok |-> FALSE, val |-> 0]

\* float(s) on a literal d+ or d+.d+ ; the value is num / den.
\* Anything else raises ValueError.
ParseFloat(s) ==
    LET dots == {i \in 1..Len(s) : s[i] = "."} IN
    IF dots = {} THEN
        IF AllDigits(s) THEN [ok |-> TRUE, num |-> DigitsValue(s), den |-> 1]
        ELSE [ok |-> FALSE, num |-> 0, den |-> 1]
    ELSE
        LET d == CHOOSE i \in dots : TRUE
            ip == SubSeq(s, 1, d - 1)
            fp == SubSeq(s, d + 1, Len(s))
        IN IF Cardinality(dots) = 1 /\ AllDigits(ip) /\ AllDigits(fp)
           THEN [ok |-> TRUE,
                 num |-> DigitsValue(ip) * Pow10(Len(fp)) + DigitsValue(fp),
                 den |-> Pow10(Len(fp))]
           ELSE [ok |-> FALSE, num |-> 0, den |-> 1]

\* equality of two parsed floats
FloatEq(a, n, d) == a.num * d = n * a.den

-----------------------------------------------------------------------------
(* Process environment *)

EnvVars == {"AWS_ACCESS_KEY_ID", "AWS_SECRET_ACCESS_KEY", "AWS_REGION",
            "BEDROCK_MODEL_ID", "BEDROCK_MAX_TOKENS", "BEDROCK_TEMPERATURE",
            "KENDRA_INDEX_ID", "KENDRA_MIN_CONFIDENCE_SCORE"}

\* os.getenv(name)
getenv(e, name) == e[name]

\* os.getenv(name, default)
getenv_or(e, name, default) == IF IsNone(e[name]) THEN default ELSE Get(e[name])

NOT_FOUND == <<"NOT_FOUND">>
MASK == <<"*", "*", "*">>

-----------------------------------------------------------------------------
(* ComplianceAssistantBot.__init__ *)

NoBot == [aws_config |-> None, bedrock_client |-> None, kendra_client |-> None,
          model_config |-> None, compliance_topics |-> None]

\* the "Environment Variables Debug" block printed by setup_aws_clients
setup_debug_lines(e) ==
    << <<"=== Environment Variables Debug ===">>,
       <<"AWS_ACCESS_KEY_ID: ">> \o getenv_or(e, "AWS_ACCESS_KEY_ID", NOT_FOUND),
       <<"AWS_SECRET_ACCESS_KEY: ">> \o
           (IF Truthy(getenv(e, "AWS_SECRET_ACCESS_KEY"))
            THEN MASK \o LastN(getenv_or(e, "AWS_SECRET_ACCESS_KEY", NOT_FOUND), 4)
            ELSE NOT_FOUND),
       <<"AWS_REGION: ">> \o getenv_or(e, "AWS_REGION", NOT_FOUND),
       <<"BEDROCK_MODEL_ID: ">> \o getenv_or(e, "BEDROCK_MODEL_ID", NOT_FOUND),
       <<"KENDRA_INDEX_ID: ">> \o getenv_or(e, "KENDRA_INDEX_ID", NOT_FOUND),
       <<"===================================">> >>

\* the aws_config dict
aws_config_of(e) ==
    [region_name |-> getenv_or(e, "AWS_REGION", <<"us-east-1">>),
     aws_access_key_id |-> getenv(e, "AWS_ACCESS_KEY_ID"),
     aws_secret_access_key |-> getenv(e, "AWS_SECRET_ACCESS_KEY")]

\* a validation that fails only when both credentials are missing
credentials_missing_both(cfg) ==
    ~Truthy(cfg.aws_access_key_id) /\ ~Truthy(cfg.aws_secret_access_key)

\* the condition under which setup_aws_clients raises ValueError
credentials_missing(cfg) ==
    ~Truthy(cfg.aws_access_key_id) \/ ~Truthy(cfg.aws_secret_access_key)

CREDENTIALS_ERROR == <<"AWS credentials not found. Please check your .env file.">>
INT_ERROR == <<"invalid literal for int() with base 10: ">>
FLOAT_ERROR == <<"could not convert string to float: ">>

\* boto3.client(service, **aws_config)
boto3_client(service, cfg) == [service |-> service, region_name |-> cfg.region_name]

\* setup_compliance_knowledge: the four fixed sample-question categories
compliance_topics == {"aml", "trading", "kyc", "reporting"}

\* setup_aws_clients followed by setup_compliance_knowledge, on environment e:
\* the instance fields, the lines printed and logged, and the exception that
\* escapes the constructor (None when it returns normally)
setup_aws_clients(e) ==
    LET cfg == aws_config_of(e)
        out == setup_debug_lines(e)
        fail(b, msg) ==
            [bot |-> b, printed |-> out,
             logged |-> << <<"Error initializing AWS clients: ">> \o msg >>,
             raised |-> Some(msg)]
        b0 == [NoBot EXCEPT !.aws_config = Some(cfg)]
        b1 == [b0 EXCEPT !.bedrock_client = Some(boto3_client("bedrock-runtime", cfg)),
                         !.kendra_client = Some(boto3_client("kendra", cfg))]
        mt == getenv_or(e, "BEDROCK_MAX_TOKENS", <<"2", "0", "0", "0">>)
        tp == getenv_or(e, "BEDROCK_TEMPERATURE", <<"0", ".", "7">>)
        mc == getenv_or(e, "KENDRA_MIN_CONFIDENCE_SCORE", <<"0", ".", "3">>)
    IN  IF credentials_missing(cfg) THEN fail(b0, CREDENTIALS_ERROR)
        ELSE IF ~ParseInt(mt).ok THEN fail(b1, INT_ERROR \o mt)
        ELSE IF ~ParseFloat(tp).ok THEN fail(b1, FLOAT_ERROR \o tp)
        ELSE IF ~ParseFloat(mc).ok THEN fail(b1, FLOAT_ERROR \o mc)
        ELSE [bot |-> [b1 EXCEPT
                 !.model_config = Some(
                     [model_id |-> getenv_or(e, "BEDROCK_MODEL_ID",
                                     <<"anthropic.claude-3-sonnet-20240229-v1:0">>),
                      max_tokens |-> ParseInt(mt).val,
                      temperature |-> ParseFloat(tp),
                      kendra_index_id |-> getenv_or(e, "KENDRA_INDEX_ID", <<"salespitch">>),
                      min_confidence_score |-> ParseFloat(mc)]),
                 !.compliance_topics = Some(compliance_topics)],
              printed |-> out,
              logged |-> << <<"AWS clients initialized successfully">> >>,
              raised |-> None]

-----------------------------------------------------------------------------
(* src/test.py: test_environment_variables *)

\* the variables the script checks, in the order of required_vars
required_vars == <<"AWS_ACCESS_KEY_ID", "AWS_SECRET_ACCESS_KEY", "AWS_REGION",
                   "BEDROCK_MODEL_ID", "BEDROCK_MAX_TOKENS", "BEDROCK_TEMPERATURE",
                   "KENDRA_INDEX_ID", "KENDRA_MIN_CONFIDENCE_SCORE">>

\* 'SECRET' in var_name or 'KEY' in var_name, over the names of required_vars
is_sensitive(name) == name \in {"AWS_ACCESS_KEY_ID", "AWS_SECRET_ACCESS_KEY"}

\* display_value of one variable whose value is truthy
display_value(name, value) ==
    IF is_sensitive(name)
    THEN (IF Len(value) > 4 THEN MASK \o LastN(value, 4) ELSE MASK)
    ELSE value

\* the line printed for one variable
diagnostic_line(e, name) ==
    IF Truthy(getenv(e, name))
    THEN <<"OK ", name, ": ">> \o display_value(name, Get(getenv(e, name)))
    ELSE <<"MISSING ", name, ": NOT FOUND">>

\* the lines printed by the loop over required_vars
test_environment_variables(e) ==
    [i \in 1..Len(required_vars) |-> diagnostic_line(e, required_vars[i])]

-----------------------------------------------------------------------------
(* query_kendra_rag *)

\* PageSize of kendra_client.query
PageSize == 5

\* One ResultItems entry of the search response.  Each of the three
\* attributes may be missing from the item (None).
ResultItem(label, text, title) ==
    [ScoreConfidence |-> label, DocumentExcerpt |-> text, DocumentTitle |-> title]

\* dict.get(key, '') on an Optional str attribute
get_or_empty(o) == IF IsNone(o) THEN <<>> ELSE Get(o)

\* score of a confidence label, in tenths
label_score(label) ==
    CASE label = <<"VERY_HIGH">> -> 10 [] label = <<"HIGH">> -> 8
      [] label = <<"MEDIUM">> -> 5 [] OTHER -> 2

\* a filter that compares the label against min_confidence_score
is_relevant_by_score(item, min_confidence_score) ==
    /\ ~IsNone(item.ScoreConfidence)
    /\ label_score(Get(item.ScoreConfidence)) * min_confidence_score.den
          >= 10 * min_confidence_score.num

\* the condition of the filter:
\* result.get('ScoreAttributes', {}).get('ScoreConfidence') == 'HIGH'
is_relevant(item, min_confidence_score) ==
    item.ScoreConfidence = Some(<<"HIGH">>)

\* the dict appended to relevant_results for one item
relevant_entry(item) ==
    [text |-> get_or_empty(item.DocumentExcerpt),
     title |-> get_or_empty(item.DocumentTitle),
     confidence |-> get_or_empty(item.ScoreConfidence)]

RECURSIVE relevant_results(_, _)
\* the loop over response.get('ResultItems', [])
relevant_results(items, mcs) ==
    IF items = <<>> THEN <<>>
    ELSE (IF is_relevant(Head(items), mcs) THEN <<relevant_entry(Head(items))>>
          ELSE <<>>) \o relevant_results(Tail(items), mcs)

\* query_kendra_rag without its except clause: the exception propagates
query_kendra_rag_propagates(outcome, model_config) ==
    IF outcome.raises
    THEN [value |-> None, raised |-> Some(outcome.error), logged |-> <<>>]
    ELSE LET rel == relevant_results(outcome.items, model_config.min_confidence_score)
         IN [value |-> IF rel # <<>> THEN Some(rel) ELSE None,
             raised |-> None, logged |-> <<>>]

\* query_kendra_rag on the outcome of kendra_client.query: the value returned
\* (an Optional list) and the exception propagated to the caller (None: the
\* except clause returns None for every exception)
query_kendra_rag(outcome, model_config) ==
    IF outcome.raises
    THEN [value |-> None, raised |-> None,
          logged |-> << <<"Error querying Kendra: ">> \o outcome.error >>]
    ELSE LET rel == relevant_results(outcome.items, model_config.min_confidence_score)
         IN [value |-> IF rel # <<>> THEN Some(rel) ELSE None,
             raised |-> None, logged |-> <<>>]

-----------------------------------------------------------------------------
(* create_compliance_prompt *)

PROMPT_HEAD == <<"You are an expert compliance officer assistant ... ",
                 "Guidelines for your responses: 1. ... 6. ...", "\n\n",
                 "Question: ">>
PROMPT_TAIL == <<"Please provide a comprehensive answer that addresses all aspects of this compliance question.">>
CONTEXT_LABEL == "Additional Context: "

\* base_prompt for a question and an Optional context
create_compliance_prompt(q, ctx) ==
    PROMPT_HEAD \o q \o <<"\n\n">>
    \o (IF Truthy(ctx) THEN <<CONTEXT_LABEL>> \o Get(ctx) ELSE <<>>)
    \o <<"\n\n">> \o PROMPT_TAIL

-----------------------------------------------------------------------------
(* query_bedrock_llm *)

BEDROCK_APOLOGY == <<"I apologize, but I encountered an error while processing your question: ">>

\* query_bedrock_llm without its except clause: the exception propagates
query_bedrock_llm_propagates(outcome) ==
    IF outcome.raises
    THEN [value |-> <<>>, raised |-> Some(outcome.error), logged |-> <<>>]
    ELSE [value |-> outcome.text, raised |-> None,
          logged |-> << <<"Successfully received response from Bedrock">> >>]

\* query_bedrock_llm on the outcome of bedrock_client.invoke_model and of
\* parsing its body: the value returned and the exception propagated (None:
\* the except clause returns the apology for every exception)
query_bedrock_llm(outcome) ==
    IF outcome.raises
    THEN [value |-> BEDROCK_APOLOGY \o outcome.error, raised |-> None,
          logged |-> << <<"Error querying Bedrock: ">> \o outcome.error >>]
    ELSE [value |-> outcome.text, raised |-> None,
          logged |-> << <<"Successfully received response from Bedrock">> >>]

-----------------------------------------------------------------------------
(* get_compliance_answer *)

\* truthiness of an Optional list
TruthyList(o) == ~IsNone(o) /\ Get(o) # <<>>

\* a context built from every result: kendra_results without [:3]
context_limit_all(rs) == rs

\* how many of the results go into the context: kendra_results[:3]
context_limit(rs) == FirstN(rs, 3)

\* one line of the context
context_line(r) == <<"- ">> \o r.text

\* "\n".join([f"- {result['text']}" for result in kendra_results[:3]])
build_context(rs) ==
    LET top == context_limit(rs)
    IN Join(<<"\n">>, [i \in 1..Len(top) |-> context_line(top[i])])

\* a record that never carries the sources
answer_record_sources_dropped(q, answer, ru, kr, now) ==
    [question |-> q, answer |-> answer, rag_used |-> ru,
     context_sources |-> None, timestamp |-> now]

\* a record that echoes the answer in place of the question
answer_record_question_lost(q, answer, ru, kr, now) ==
    [question |-> answer, answer |-> answer, rag_used |-> ru,
     context_sources |-> IF ru THEN kr ELSE None, timestamp |-> now]

\* the dict returned by the try block
answer_record(q, answer, ru, kr, now) ==
    [question |-> q, answer |-> answer, rag_used |-> ru,
     context_sources |-> IF ru THEN kr ELSE None, timestamp |-> now]

ANSWER_APOLOGY == <<"I apologize, but I encountered an error: ">>

\* the dict returned by the except clause
error_record(q, msg, now) ==
    [question |-> q, answer |-> ANSWER_APOLOGY \o msg, rag_used |-> FALSE,
     context_sources |-> None, timestamp |-> now]

-----------------------------------------------------------------------------
(* lambda_handler *)

\* json.loads on the request bodies of the model: the parsed document, or
\* the JSONDecodeError it raises
json_loads(text) ==
    LET obj(q, r) == [ok |-> TRUE, kind |-> "object", question |-> q,
                      use_rag |-> r, error |-> <<>>]
    IN CASE text = <<"{}">> -> obj(None, None)
         [] text = <<"{\"question\": \"What is KYC?\"}">>
              -> obj(Some(<<"What is KYC?">>), None)
         [] text = <<"{\"question\": \"What is KYC?\", \"use_rag\": false}">>
              -> obj(Some(<<"What is KYC?">>), Some(FALSE))
         [] text = <<"{\"question\": \"\"}">> -> obj(Some(<<>>), None)
         [] text = <<"{\"use_rag\": true}">> -> obj(None, Some(TRUE))
         [] text = <<"[]">>
              -> [ok |-> TRUE, kind |-> "array", question |-> None,
                  use_rag |-> None, error |-> <<>>]
         [] OTHER
              -> [ok |-> FALSE, kind |-> "none", question |-> None,
                  use_rag |-> None,
                  error |-> <<"Expecting value: line 1 column 1 (char 0)">>]

\* str.lower() on one token of the model
lower_token(t) ==
    CASE t = "TRUE" -> "true"
      [] t = "QUIT" -> "quit"
      [] t = "Exit" -> "exit"
      [] t = "What is KYC?" -> "what is kyc?"
      [] OTHER -> t

\* str.lower()
lower(s) == [i \in 1..Len(s) |-> lower_token(s[i])]

\* the whitespace tokens of the model
Whitespace == {" ", "\t"}

RECURSIVE lstrip(_)
lstrip(s) == IF s # <<>> /\ Head(s) \in Whitespace THEN lstrip(Tail(s)) ELSE s

RECURSIVE rstrip(_)
rstrip(s) ==
    IF s # <<>> /\ s[Len(s)] \in Whitespace
    THEN rstrip(SubSeq(s, 1, Len(s) - 1))
    ELSE s

\* str.strip()
strip(s) == rstrip(lstrip(s))

\* str() of a natural number
RECURSIVE str_of(_)
str_of(n) ==
    IF n < 10 THEN <<Digits[n + 1]>>
    ELSE str_of(n \div 10) \o <<Digits[(n % 10) + 1]>>

TYPE_ERROR == <<"the JSON object must be str, bytes or bytearray, not NoneType">>
LIST_ATTRIBUTE_ERROR == <<"'list' object has no attribute 'get'">>
NONE_ATTRIBUTE_ERROR == <<"'NoneType' object has no attribute 'get'">>

\* A key of the event is absent, present with the value None, or present
\* with a value.
Absent == [kind |-> "absent", value |-> <<>>]
Null == [kind |-> "null", value |-> <<>>]
Present(v) == [kind |-> "value", value |-> v]

\* the POST branch: question and use_rag, or the exception raised
extract_post(ev) ==
    LET fail(msg) == [raised |-> Some(msg), question |-> <<>>, use_rag |-> TRUE]
        text == IF ev.body.kind = "absent" THEN <<"{}">> ELSE ev.body.value
        doc == json_loads(text)
    IN  IF ev.body.kind = "null" THEN fail(TYPE_ERROR)
        ELSE IF ~doc.ok THEN fail(doc.error)
        ELSE IF doc.kind # "object" THEN fail(LIST_ATTRIBUTE_ERROR)
        ELSE [raised |-> None,
              question |-> IF IsNone(doc.question) THEN <<>> ELSE Get(doc.question),
              use_rag |-> IF IsNone(doc.use_rag) THEN TRUE ELSE Get(doc.use_rag)]

\* the GET branch: question and use_rag, or the exception raised
extract_get(ev) ==
    LET qsp == ev.queryStringParameters
        params == IF qsp.kind = "absent" THEN [question |-> None, use_rag |-> None]
                  ELSE qsp.value
    IN  IF qsp.kind = "null"
        THEN [raised |-> Some(NONE_ATTRIBUTE_ERROR), question |-> <<>>, use_rag |-> TRUE]
        ELSE [raised |-> None,
              question |-> get_or_empty(params.question),
              use_rag |-> lower(IF IsNone(params.use_rag) THEN <<"true">>
                                ELSE Get(params.use_rag)) = <<"true">>]

\* "Extract question from event"
extract_request(ev) ==
    IF ev.httpMethod = Some(<<"POST">>) THEN extract_post(ev) ELSE extract_get(ev)

\* json.dumps(obj): the JSON text, kept as the document it denotes
json_dumps(obj) == <<"json", obj>>

\* a 500 response that leaves the exception message out
error_response_without_message(msg) ==
    [statusCode |-> 500, headers |-> {"Content-Type"},
     body |-> json_dumps([error |-> <<"Internal server error">>])]

bad_request_response ==
    [statusCode |-> 400, headers |-> {"Content-Type"},
     body |-> json_dumps([error |-> <<"Question parameter is required">>])]

ok_response(res) ==
    [statusCode |-> 200,
     headers |-> {"Content-Type", "Access-Control-Allow-Origin"},
     body |-> json_dumps(res)]

error_response(msg) ==
    [statusCode |-> 500, headers |-> {"Content-Type"},
     body |-> json_dumps([error |-> <<"Internal server error: ">> \o msg])]

-----------------------------------------------------------------------------
(* Inputs of the model *)

MakeEnv(ak, sk, region, model, mt, temp, idx, mcs) ==
    [n \in EnvVars |->
        CASE n = "AWS_ACCESS_KEY_ID" -> ak
          [] n = "AWS_SECRET_ACCESS_KEY" -> sk
          [] n = "AWS_REGION" -> region
          [] n = "BEDROCK_MODEL_ID" -> model
          [] n = "BEDROCK_MAX_TOKENS" -> mt
          [] n = "BEDROCK_TEMPERATURE" -> temp
          [] n = "KENDRA_INDEX_ID" -> idx
          [] n = "KENDRA_MIN_CONFIDENCE_SCORE" -> mcs]

\* credential values: the two of create_sample_env_file, shortened, and a
\* secret of fewer than five characters
ACCESS_KEY == <<"A", "K", "I", "A", "Y", "X", "T">>
SECRET_KEY == <<"L", "r", "4", "g", "Y", "d">>
SHORT_SECRET == <<"z", "Z", "K">>

\* Environments of the configuration specification
ConfigEnvs ==
    {MakeEnv(ak, sk, region, model, mt, temp, idx, mcs) :
        ak \in {None, Some(<<>>), Some(ACCESS_KEY)},
        sk \in {None, Some(<<>>), Some(SHORT_SECRET), Some(SECRET_KEY)},
        region \in {None, Some(<<"eu-west-1">>)},
        model \in {None, Some(<<"anthropic.claude-3-haiku-20240307-v1:0">>)},
        mt \in {None, Some(<<"5", "1", "2">>), Some(<<"a", "b", "c">>)},
        temp \in {None, Some(<<"0", ".", "2", "5">>)},
        idx \in {None, Some(<<"compliance-docs">>)},
        mcs \in {None, Some(<<"0", ".", "9">>), Some(<<"h", "i", "g", "h">>)}}

\* an environment holding the two credentials and nothing else
DefaultEnv ==
    MakeEnv(Some(ACCESS_KEY), Some(SECRET_KEY), None, None, None, None, None, None)

\* Environments of the pipeline specification: the bot is constructed, with
\* the default and with the lowest minimum confidence score
PipelineEnvs ==
    {DefaultEnv, [DefaultEnv EXCEPT !["KENDRA_MIN_CONFIDENCE_SCORE"] = Some(<<"0", ".", "0">>)]}

\* Environments of the handler specification
LambdaEnvs ==
    {DefaultEnv,
     [DefaultEnv EXCEPT !["AWS_SECRET_ACCESS_KEY"] = None],
     [DefaultEnv EXCEPT !["BEDROCK_MAX_TOKENS"] = Some(<<"a", "b", "c">>)]}

Questions == {<<"What is KYC?">>, <<"What are STR reporting requirements?">>}

\* the candidates the search service may return: every confidence label of
\* the service, and items without a label, an excerpt or a title
Candidates ==
    {ResultItem(Some(<<"HIGH">>), Some(<<"STR excerpt">>), Some(<<"AML manual">>)),
     ResultItem(Some(<<"HIGH">>), Some(<<"KYC excerpt">>), None),
     ResultItem(Some(<<"HIGH">>), None, Some(<<"Untitled">>)),
     ResultItem(Some(<<"VERY_HIGH">>), Some(<<"STR excerpt">>), Some(<<"AML manual">>)),
     ResultItem(Some(<<"MEDIUM">>), Some(<<"KYC excerpt">>), Some(<<"KYC policy">>)),
     ResultItem(Some(<<"LOW">>), Some(<<"STR excerpt">>), None),
     ResultItem(None, Some(<<"KYC excerpt">>), Some(<<"KYC policy">>))}

\* the ResultItems lists of the model: at most PageSize items are returned
ResultLists ==
    UNION {[1..n -> Candidates] :
             n \in 0..(IF MaxItems < PageSize THEN MaxItems ELSE PageSize)}

\* str(e) of the exceptions the two remote calls raise
ServiceErrors == {<<"Connect timeout on endpoint URL">>, <<>>}

KendraReturnOutcomes ==
    {[raises |-> FALSE, items |-> its, error |-> <<>>] : its \in ResultLists}
KendraRaiseOutcomes ==
    {[raises |-> TRUE, items |-> <<>>, error |-> msg] : msg \in ServiceErrors}

BedrockTexts == {<<"Answer text">>, <<>>}
BedrockReturnOutcomes ==
    {[raises |-> FALSE, text |-> t, error |-> <<>>] : t \in BedrockTexts}
BedrockRaiseOutcomes ==
    {[raises |-> TRUE, text |-> <<>>, error |-> msg] : msg \in ServiceErrors}

\* The outcomes of the remote calls in the interactive loop, where the logs
\* of successive passes accumulate: a search that finds nothing, finds one
\* HIGH passage or fails, a generation that answers or fails
CliResultLists ==
    {<<>>,
     <<ResultItem(Some(<<"HIGH">>), Some(<<"STR excerpt">>), Some(<<"AML manual">>))>>}
CliServiceErrors == {<<"Connect timeout on endpoint URL">>}
CliBedrockTexts == {<<"Answer text">>}

KendraReturnOutcomesOf(who) ==
    IF who = "cli"
    THEN {[raises |-> FALSE, items |-> its, error |-> <<>>] : its \in CliResultLists}
    ELSE KendraReturnOutcomes
KendraRaiseOutcomesOf(who) ==
    IF who = "cli"
    THEN {[raises |-> TRUE, items |-> <<>>, error |-> msg] : msg \in CliServiceErrors}
    ELSE KendraRaiseOutcomes
BedrockReturnOutcomesOf(who) ==
    IF who = "cli"
    THEN {[raises |-> FALSE, text |-> t, error |-> <<>>] : t \in CliBedrockTexts}
    ELSE BedrockReturnOutcomes
BedrockRaiseOutcomesOf(who) ==
    IF who = "cli"
    THEN {[raises |-> TRUE, text |-> <<>>, error |-> msg] : msg \in CliServiceErrors}
    ELSE BedrockRaiseOutcomes

\* Environments of the interactive loop: one the bot is constructed on, one
\* its constructor fails on
CliEnvs == {DefaultEnv, [DefaultEnv EXCEPT !["AWS_SECRET_ACCESS_KEY"] = None]}

\* The lines input() may return: the three words that end the loop, the same
\* in other letter case or padded with whitespace, empty and whitespace-only
\* lines, a padded question and a question that begins with a word of the list
Lines ==
    {<<"quit">>, <<"exit">>, <<"q">>,
     <<"QUIT">>, <<" ", "q", " ">>,
     <<>>, <<" ">>,
     <<" ", "What is KYC?">>, <<"quit", " ", "now">>}

PostBodies ==
    {Absent, Null,
     Present(<<"{}">>),
     Present(<<"{\"question\": \"What is KYC?\"}">>),
     Present(<<"{\"question\": \"What is KYC?\", \"use_rag\": false}">>),
     Present(<<"{\"question\": \"\"}">>),
     Present(<<"{\"use_rag\": true}">>),
     Present(<<"[]">>),
     Present(<<>>)}

QueryParameters ==
    {Absent, Null} \cup
    {Present([question |-> q, use_rag |-> r]) :
        q \in {None, Some(<<>>), Some(<<"What is KYC?">>)},
        r \in {None, Some(<<"true">>), Some(<<"TRUE">>), Some(<<"false">>)}}

Events ==
    {[httpMethod |-> Some(<<"POST">>), body |-> b, queryStringParameters |-> Absent] :
        b \in PostBodies}
    \cup
    {[httpMethod |-> Some(<<"GET">>), body |-> Absent, queryStringParameters |-> q] :
        q \in QueryParameters}

-----------------------------------------------------------------------------
(* Initial states *)

\* nothing has run: no instance, no request
Blank(e) ==
    /\ env = e
    /\ printed = <<>>
    /\ logged = <<>>
    /\ bot = NoBot
    /\ pc = "new"
    /\ caller = "none"
    /\ question = <<>>
    /\ use_rag = FALSE
    /\ kendra_response = None
    /\ kendra_results = None
    /\ context = None
    /\ rag_used = FALSE
    /\ prompt = None
    /\ bedrock_response = None
    /\ result = None
    /\ calls = <<>>
    /\ clock = 0
    /\ event = None
    /\ response = None
    /\ caught = None
    /\ diagnostic = None
    /\ consumed = <<>>
    /\ asked = <<>>
    /\ raised = None

-----------------------------------------------------------------------------
(* Actions *)

\* ComplianceAssistantBot(): setup_aws_clients, then setup_compliance_knowledge
ConstructBot ==
    /\ pc = "new"
    /\ LET s == setup_aws_clients(env)
       IN /\ bot' = s.bot
          /\ printed' = printed \o s.printed
          /\ logged' = logged \o s.logged
          /\ raised' = s.raised
          /\ pc' = IF IsNone(s.raised) THEN "idle" ELSE "failed"
    /\ UNCHANGED <<env, pipeline_vars, lambda_vars, cli_vars, diagnostic>>

\* python test.py: test_environment_variables
RunDiagnostic ==
    /\ IsNone(diagnostic)
    /\ printed' = printed \o test_environment_variables(env)
    /\ diagnostic' = Some(\A i \in 1..Len(required_vars) :
                              Truthy(getenv(env, required_vars[i])))
    /\ UNCHANGED <<env, logged, bot, pc, pipeline_vars, lambda_vars, cli_vars, raised>>

\* the request sent to a remote service
RemoteCall(service, request) == [service |-> service, request |-> request]

\* get_compliance_answer up to its first remote call: the locals are
\* initialised and, without RAG, the prompt is built
EnterPipeline(q, ur, who) ==
    /\ caller' = who
    /\ asked' = Append(asked, [question |-> q, use_rag |-> ur])
    /\ question' = q
    /\ use_rag' = ur
    /\ context' = None
    /\ rag_used' = FALSE
    /\ kendra_response' = None
    /\ kendra_results' = None
    /\ bedrock_response' = None
    /\ result' = None
    /\ clock' = clock
    /\ IF ur
       THEN /\ prompt' = None
            /\ calls' = Append(calls, RemoteCall("kendra", q))
            /\ pc' = "kendra"
       ELSE /\ prompt' = Some(create_compliance_prompt(q, None))
            /\ calls' = Append(calls, RemoteCall("bedrock", create_compliance_prompt(q, None)))
            /\ pc' = "bedrock"

\* a direct call of get_compliance_answer (web UI, CLI)
GetComplianceAnswer ==
    /\ pc = "idle"
    /\ \E q \in Questions, ur \in BOOLEAN : EnterPipeline(q, ur, "direct")
    /\ UNCHANGED <<env, printed, logged, bot, lambda_vars, cli_vars, diagnostic, raised>>

\* cli_interface: the words that end the loop
QUIT_WORDS == {<<"quit">>, <<"exit">>, <<"q">>}

\* a comparison with the list that keeps the letter case of the line
is_quit_case_sensitive(q) == q \in QUIT_WORDS

\* cli_interface: question.lower() in ['quit', 'exit', 'q']
is_quit(q) == lower(q) \in QUIT_WORDS

CLI_BANNER == << <<"Compliance Assistant Bot - CLI Mode">>, <<"=">> >>
CLI_PROMPT == <<"Ask your compliance question (or type 'quit' to exit):">>
CLI_ERROR == <<"Error: ">>
EOF_ERROR == <<"EOF when reading a line">>

\* cli_interface: the lines printed for the record res
cli_answer_lines(res) ==
    << <<"Answer:">>, <<"=">>, res.answer, <<"=">>,
       <<"RAG Used: ", IF res.rag_used THEN "Yes" ELSE "No">>,
       <<"Timestamp: ">> \o str_of(res.timestamp) >>

\* get_compliance_answer returns res: lambda_handler wraps it in its
\* response, cli_interface prints it and prompts again
Return(res) ==
    /\ result' = Some(res)
    /\ pc' = IF caller = "cli" THEN "prompting" ELSE "done"
    /\ response' = IF caller = "lambda" THEN Some(ok_response(res)) ELSE response
    /\ printed' = IF caller = "cli" THEN printed \o cli_answer_lines(res) ELSE printed

\* a search step that sends the query a second time after a first failure
KendraQuery_retries(outcome) ==
    /\ pc = "kendra"
    /\ LET r == query_kendra_rag(outcome, Get(bot.model_config))
           ru == TruthyList(r.value)
           ctx == IF ru THEN Some(build_context(Get(r.value))) ELSE None
           p == create_compliance_prompt(question, ctx)
       IN /\ kendra_response' = Some(outcome)
          /\ clock' = clock + 1
          /\ kendra_results' = r.value
          /\ rag_used' = ru
          /\ context' = ctx
          /\ logged' = logged \o r.logged
          /\ IF outcome.raises /\ Len(calls) < 2
             THEN /\ prompt' = prompt
                  /\ calls' = Append(calls, RemoteCall("kendra", question))
                  /\ pc' = "kendra"
             ELSE /\ prompt' = Some(p)
                  /\ calls' = Append(calls, RemoteCall("bedrock", p))
                  /\ pc' = "bedrock"
    /\ UNCHANGED <<env, printed, bot, caller, question, use_rag, bedrock_response,
                   result, response, event, caught, diagnostic, consumed, asked,
                   raised>>

\* kendra_client.query ends with outcome: query_kendra_rag returns, and
\* get_compliance_answer runs on to the call of the generation service
KendraQuery(outcome) ==
    /\ pc = "kendra"
    /\ LET r == query_kendra_rag(outcome, Get(bot.model_config))
           ru == TruthyList(r.value)
           ctx == IF ru THEN Some(build_context(Get(r.value))) ELSE None
           p == create_compliance_prompt(question, ctx)
       IN /\ kendra_response' = Some(outcome)
          /\ clock' = clock + 1
          /\ IF IsNone(r.raised)
             THEN /\ kendra_results' = r.value
                  /\ rag_used' = ru
                  /\ context' = ctx
                  /\ prompt' = Some(p)
                  /\ calls' = Append(calls, RemoteCall("bedrock", p))
                  /\ logged' = logged \o r.logged
                  /\ pc' = "bedrock"
                  /\ UNCHANGED <<result, response, printed>>
             ELSE /\ Return(error_record(question, Get(r.raised), clock + 1))
                  /\ logged' = logged \o r.logged
                        \o << <<"Error getting compliance answer: ">> \o Get(r.raised) >>
                  /\ UNCHANGED <<kendra_results, rag_used, context, prompt, calls>>
    /\ UNCHANGED <<env, bot, caller, question, use_rag, bedrock_response,
                   event, caught, diagnostic, consumed, asked, raised>>

KendraReturns ==
    /\ pc = "kendra"
    /\ \E outcome \in KendraReturnOutcomesOf(caller) : KendraQuery(outcome)

KendraRaises ==
    /\ pc = "kendra"
    /\ \E outcome \in KendraRaiseOutcomesOf(caller) : KendraQuery(outcome)

\* bedrock_client.invoke_model ends with outcome: query_bedrock_llm returns
\* and get_compliance_answer returns its record
BedrockInvoke(outcome) ==
    /\ pc = "bedrock"
    /\ LET r == query_bedrock_llm(outcome)
       IN /\ bedrock_response' = Some(outcome)
          /\ clock' = clock + 1
          /\ IF IsNone(r.raised)
             THEN /\ Return(answer_record(question, r.value, rag_used,
                                          kendra_results, clock + 1))
                  /\ logged' = logged \o r.logged
             ELSE /\ Return(error_record(question, Get(r.raised), clock + 1))
                  /\ logged' = logged \o r.logged
                        \o << <<"Error getting compliance answer: ">> \o Get(r.raised) >>
    /\ UNCHANGED <<env, bot, caller, question, use_rag, kendra_response,
                   kendra_results, context, rag_used, prompt, calls,
                   event, caught, diagnostic, consumed, asked, raised>>

BedrockReturns ==
    /\ pc = "bedrock"
    /\ \E outcome \in BedrockReturnOutcomesOf(caller) : BedrockInvoke(outcome)

BedrockRaises ==
    /\ pc = "bedrock"
    /\ \E outcome \in BedrockRaiseOutcomesOf(caller) : BedrockInvoke(outcome)

\* lambda_handler on event ev, up to the first remote call of the pipeline or
\* to its return
lambda_handler(ev) ==
    /\ pc = "new"
    /\ event' = Some(ev)
    /\ LET s == setup_aws_clients(env)
           req == extract_request(ev)
           exc == IF ~IsNone(s.raised) THEN s.raised ELSE req.raised
       IN /\ bot' = s.bot
          /\ printed' = printed \o s.printed
          /\ caught' = exc
          /\ IF ~IsNone(exc)
             THEN /\ response' = Some(error_response(Get(exc)))
                  /\ logged' = logged \o s.logged
                                 \o << <<"Lambda handler error: ">> \o Get(exc) >>
                  /\ pc' = "done"
                  /\ UNCHANGED pipeline_vars
             ELSE IF req.question = <<>>
             THEN /\ response' = Some(bad_request_response)
                  /\ logged' = logged \o s.logged
                  /\ pc' = "done"
                  /\ UNCHANGED pipeline_vars
             ELSE /\ EnterPipeline(req.question, req.use_rag, "lambda")
                  /\ logged' = logged \o s.logged
                  /\ UNCHANGED response
    /\ UNCHANGED <<env, diagnostic, cli_vars, raised>>

LambdaHandler ==
    /\ pc = "new"
    /\ \E ev \in Events : lambda_handler(ev)

\* cli_interface up to its loop: the banner, then the constructor; an
\* exception of the constructor is printed and ends the program
CliStart ==
    /\ pc = "new"
    /\ LET s == setup_aws_clients(env)
       IN /\ bot' = s.bot
          /\ logged' = logged \o s.logged
          /\ printed' = printed \o CLI_BANNER \o s.printed
                \o (IF IsNone(s.raised)
                    THEN << <<"Bot initialized successfully!">> >>
                    ELSE << CLI_ERROR \o Get(s.raised) >>)
          /\ pc' = IF IsNone(s.raised) THEN "prompting" ELSE "exited"
    /\ UNCHANGED <<env, pipeline_vars, lambda_vars, cli_vars, diagnostic, raised>>

\* one turn of the loop of cli_interface on the line input() returns, up to
\* the first remote call of the pipeline, to the next prompt or to the break
cli_read_line(line) ==
    /\ consumed' = Append(consumed, line)
    /\ LET q == strip(line)
       IN IF is_quit(q)
          THEN /\ printed' = printed \o <<CLI_PROMPT, <<"Goodbye!">> >>
               /\ pc' = "exited"
               /\ UNCHANGED pipeline_vars
          ELSE IF q = <<>>
          THEN /\ printed' = printed \o <<CLI_PROMPT>>
               /\ pc' = "prompting"
               /\ UNCHANGED pipeline_vars
          ELSE /\ printed' = printed
                     \o <<CLI_PROMPT, <<"Processing your question...">> >>
               /\ EnterPipeline(q, TRUE, "cli")
    /\ UNCHANGED <<env, logged, bot, lambda_vars, diagnostic, raised>>

CliReadLine ==
    /\ pc = "prompting"
    /\ Len(consumed) < MaxLines
    /\ \E line \in Lines : cli_read_line(line)

\* input() at the end of the input: EOFError, printed by the except clause
CliEndOfInput ==
    /\ pc = "prompting"
    /\ printed' = printed \o <<CLI_PROMPT, CLI_ERROR \o EOF_ERROR>>
    /\ pc' = "exited"
    /\ UNCHANGED <<env, logged, bot, pipeline_vars, lambda_vars, cli_vars,
                   diagnostic, raised>>

-----------------------------------------------------------------------------
(* Specifications *)

\* the pipeline on a constructed bot
Init ==
    \E e \in PipelineEnvs :
        /\ env = e
        /\ printed = setup_aws_clients(e).printed
        /\ logged = setup_aws_clients(e).logged
        /\ bot = setup_aws_clients(e).bot
        /\ pc = "idle"
        /\ caller = "none"
        /\ question = <<>>
        /\ use_rag = FALSE
        /\ kendra_response = None
        /\ kendra_results = None
        /\ context = None
        /\ rag_used = FALSE
        /\ prompt = None
        /\ bedrock_response = None
        /\ result = None
        /\ calls = <<>>
        /\ clock = 0
        /\ event = None
        /\ response = None
        /\ caught = None
        /\ diagnostic = None
        /\ consumed = <<>>
        /\ asked = <<>>
        /\ raised = None

Next ==
    \/ GetComplianceAnswer
    \/ KendraReturns
    \/ KendraRaises
    \/ BedrockReturns
    \/ BedrockRaises

Spec == Init /\ [][Next]_vars

\* construction of the bot and the diagnostic script, on every environment
InitConfig == \E e \in ConfigEnvs : Blank(e)

NextConfig ==
    \/ ConstructBot
    \/ RunDiagnostic

SpecConfig == InitConfig /\ [][NextConfig]_vars

\* one invocation of the handler
InitLambda == \E e \in LambdaEnvs : Blank(e)

NextLambda ==
    \/ LambdaHandler
    \/ KendraReturns
    \/ KendraRaises
    \/ BedrockReturns
    \/ BedrockRaises

SpecLambda == InitLambda /\ [][NextLambda]_vars

\* the interactive loop
InitCli == \E e \in CliEnvs : Blank(e)

NextCli ==
    \/ CliStart
    \/ CliReadLine
    \/ CliEndOfInput
    \/ KendraReturns
    \/ KendraRaises
    \/ BedrockReturns
    \/ BedrockRaises

SpecCli == InitCli /\ [][NextCli]_vars

-----------------------------------------------------------------------------
(* Properties of get_compliance_answer, checked under Spec *)

Returned == pc = "done" /\ ~IsNone(result)

\* the search call has ended, with a response or with an exception
SearchEnded == ~IsNone(kendra_response)
SearchFailed == SearchEnded /\ Get(kendra_response).raises
GenerationFailed == ~IsNone(bedrock_response) /\ Get(bedrock_response).raises

\* positions of the candidates labelled HIGH in the search response
HighPositions ==
    IF SearchEnded /\ ~Get(kendra_response).raises
    THEN {i \in 1..Len(Get(kendra_response).items) :
            Get(kendra_response).items[i].ScoreConfidence = Some(<<"HIGH">>)}
    ELSE {}

\* C1: in every returned record, context_sources is present exactly when
\* rag_used is true and the search returned at least one HIGH excerpt; in
\* every other case it is None.
C1_SourcesIffRagUsedAndHigh ==
    Returned =>
        (~IsNone(Get(result).context_sources)
            <=> (Get(result).rag_used /\ HighPositions # {}))

\* C1 witness: a record returned with sources, from a response that also held
\* candidates that are not HIGH
C1_Witness ==
    /\ Returned
    /\ ~IsNone(Get(result).context_sources)
    /\ Cardinality(HighPositions) < Len(Get(kendra_response).items)

AnswerFields == {"question", "answer", "rag_used", "context_sources", "timestamp"}

\* C2: get_compliance_answer propagates no exception, whatever the two remote
\* calls do; what it returns is a record with exactly the five fields, whose
\* question is the question it was called with.
C2_AlwaysReturnsCompleteRecord ==
    /\ IsNone(raised)
    /\ pc \in {"idle", "kendra", "bedrock", "done"}
    /\ pc = "done" =>
          /\ ~IsNone(result)
          /\ DOMAIN Get(result) = AnswerFields
          /\ Get(result).question = question
          /\ Contains(calls[1].request, Get(result).question)

\* C2 witness: a record returned after both remote calls raised
C2_Witness == Returned /\ SearchFailed /\ GenerationFailed

\* the k-th candidate labelled HIGH, in the order of the response
HighPosition(k) ==
    CHOOSE i \in HighPositions : Cardinality({j \in HighPositions : j < i}) = k - 1

\* C3: when the search returns a response, query_kendra_rag returns the
\* candidates labelled HIGH, all of them, in the order of the response, and
\* None when there is none; no other label reaches the output, whatever
\* min_confidence_score is configured.
C3_OnlyHighInOrder ==
    (SearchEnded /\ ~SearchFailed) =>
        IF HighPositions = {} THEN IsNone(kendra_results)
        ELSE /\ ~IsNone(kendra_results)
             /\ Len(Get(kendra_results)) = Cardinality(HighPositions)
             /\ \A k \in 1..Len(Get(kendra_results)) :
                  LET item == Get(kendra_response).items[HighPosition(k)]
                      out == Get(kendra_results)[k]
                  IN /\ out.confidence = <<"HIGH">>
                     /\ out.text = get_or_empty(item.DocumentExcerpt)
                     /\ out.title = get_or_empty(item.DocumentTitle)

\* C3 witness: a response mixing MEDIUM with two different HIGH candidates
\* under a minimum confidence score of 0.0
C3_Witness ==
    /\ SearchEnded /\ ~SearchFailed
    /\ Cardinality(HighPositions) >= 2
    /\ \E i \in 1..Len(Get(kendra_response).items) :
          Get(kendra_response).items[i].ScoreConfidence = Some(<<"MEDIUM">>)
    /\ Get(kendra_results)[1].text # Get(kendra_results)[2].text
    /\ Get(bot.model_config).min_confidence_score.num = 0

\* what the generation call handed back to get_compliance_answer
GenerationValue ==
    IF Get(bedrock_response).raises
    THEN BEDROCK_APOLOGY \o Get(bedrock_response).error
    ELSE Get(bedrock_response).text

\* C4: when the search call raises, query_kendra_rag returns None,
\* rag_used stays false with no context, and the pipeline still builds the
\* prompt and calls the generation service, whose value becomes the answer.
C4_SearchFailureDegrades ==
    SearchFailed =>
        /\ IsNone(kendra_results)
        /\ ~rag_used
        /\ IsNone(context)
        /\ ~IsNone(prompt)
        /\ Len(calls) = 2
        /\ calls[2] = RemoteCall("bedrock", Get(prompt))
        /\ pc \in {"bedrock", "done"}
        /\ pc = "done" =>
              /\ ~IsNone(bedrock_response)
              /\ Get(result).answer = GenerationValue
              /\ ~Get(result).rag_used
              /\ IsNone(Get(result).context_sources)

\* C4 witness: the search raised and the generation service answered
C4_Witness ==
    /\ Returned /\ SearchFailed /\ ~GenerationFailed
    /\ Get(result).answer = <<"Answer text">>

\* C5: when the generation call raises, the answer is a non-empty string
\* holding the failure message, and rag_used and context_sources are those
\* the retrieval step produced.
C5_GenerationFailureIsAnswerText ==
    (Returned /\ GenerationFailed) =>
        /\ Get(result).answer # <<>>
        /\ Contains(Get(result).answer, Get(bedrock_response).error)
        /\ Len(Get(result).answer) > Len(Get(bedrock_response).error)
        /\ Get(result).rag_used = (HighPositions # {})
        /\ Get(result).context_sources =
              (IF HighPositions # {} THEN kendra_results ELSE None)

\* C5 witness: generation raised with a message after a retrieval that found
\* excerpts
C5_Witness ==
    /\ Returned /\ GenerationFailed
    /\ Get(bedrock_response).error # <<>>
    /\ Get(result).rag_used
    /\ ~IsNone(Get(result).context_sources)

\* the number of excerpts the context is built from: min(n, 3)
ContextCount == IF Len(Get(kendra_results)) < 3 THEN Len(Get(kendra_results)) ELSE 3

\* "- " and the text of the i-th excerpt returned
ExcerptLine(i) == <<"- ">> \o Get(kendra_results)[i].text

\* the lines of the first min(n, 3) excerpts, separated by newlines
ExpectedContext ==
    CASE ContextCount = 1 -> ExcerptLine(1)
      [] ContextCount = 2 -> ExcerptLine(1) \o <<"\n">> \o ExcerptLine(2)
      [] ContextCount = 3 -> ExcerptLine(1) \o <<"\n">> \o ExcerptLine(2)
                               \o <<"\n">> \o ExcerptLine(3)

\* C10: once the prompt is built, n >= 1 excerpts give rag_used and a context
\* made of "- " and the text of each of the first min(n, 3) excerpts, in
\* order, separated by newlines; no excerpt (or use_rag false) gives no
\* context, rag_used false and a prompt without an Additional Context block.
C10_ContextIsFirstThree ==
    ~IsNone(prompt) =>
        IF TruthyList(kendra_results)
        THEN /\ use_rag
             /\ rag_used
             /\ context = Some(ExpectedContext)
             /\ Contains(Get(prompt), <<CONTEXT_LABEL>> \o ExpectedContext)
        ELSE /\ IsNone(context)
             /\ ~rag_used
             /\ ~Contains(Get(prompt), <<CONTEXT_LABEL>>)

\* C10 witness: four excerpts were returned, the fourth unlike the third, and
\* the prompt is built
C10_Witness ==
    /\ ~IsNone(prompt)
    /\ TruthyList(kendra_results)
    /\ Len(Get(kendra_results)) = 4
    /\ Get(kendra_results)[4].text # Get(kendra_results)[3].text
    /\ Get(kendra_results)[1].text # Get(kendra_results)[2].text

-----------------------------------------------------------------------------
(* Properties of lambda_handler, checked under SpecLambda *)

HandlerReturned == pc = "done" /\ ~IsNone(response)

\* the document a response body holds
BodyOf(resp) == resp.body[2]

\* the request carries no question: no body, no query parameters, or a body
\* or parameters without a non-empty question
QuestionMissing(ev) ==
    IF ev.httpMethod = Some(<<"POST">>)
    THEN \/ ev.body.kind \in {"absent", "null"}
         \/ /\ ev.body.kind = "value"
            /\ ev.body.value \in {<<"{}">>, <<"{\"use_rag\": true}">>,
                                  <<"{\"question\": \"\"}">>}
    ELSE \/ ev.queryStringParameters.kind \in {"absent", "null"}
         \/ /\ ev.queryStringParameters.kind = "value"
            /\ ~Truthy(ev.queryStringParameters.value.question)

\* C6: with a valid configuration, every event whose question is missing or
\* empty is answered 400 with an error field, and no remote service is called.
C6_MissingQuestionIsBadRequest ==
    (HandlerReturned /\ ~IsNone(bot.model_config) /\ QuestionMissing(Get(event))) =>
        /\ Get(response).statusCode = 400
        /\ "error" \in DOMAIN BodyOf(Get(response))
        /\ calls = <<>>

\* the exception met during the invocation, if any: in the handler itself
\* or in one of the two remote calls
InvocationErrors ==
    (IF ~IsNone(caught) THEN {Get(caught)} ELSE {})
    \cup (IF SearchFailed THEN {Get(kendra_response).error} ELSE {})
    \cup (IF GenerationFailed THEN {Get(bedrock_response).error} ELSE {})

\* the handler's own steps fail: construction of the bot, or reading the
\* question out of the event
HandlerFault ==
    \/ IsNone(bot.model_config)
    \/ /\ Get(event).httpMethod = Some(<<"POST">>)
       /\ \/ Get(event).body.kind = "null"
          \/ /\ Get(event).body.kind = "value"
             /\ Get(event).body.value \in {<<"[]">>, <<>>}
    \/ /\ Get(event).httpMethod # Some(<<"POST">>)
       /\ Get(event).queryStringParameters.kind = "null"

\* C7 as stated: the handler never raises, answers 200, 400 or 500, and every
\* exception met during the invocation gives 500 with its message in the
\* error field.
C7_EveryExceptionIs500 ==
    /\ IsNone(raised)
    /\ pc = "done" =>
          /\ ~IsNone(response)
          /\ Get(response).statusCode \in {200, 400, 500}
          /\ \A msg \in InvocationErrors :
                /\ Get(response).statusCode = 500
                /\ "error" \in DOMAIN BodyOf(Get(response))
                /\ Contains(BodyOf(Get(response)).error, msg)

\* C7 amended: the handler never raises and answers 200, 400 or 500; a
\* failure of its own steps gives 500 with the exception message in the error
\* field; a failure of a remote call alone gives 200 with the record of
\* get_compliance_answer.
C7_HandlerFaultIs500 ==
    /\ IsNone(raised)
    /\ pc = "done" =>
          /\ ~IsNone(response)
          /\ Get(response).statusCode \in {200, 400, 500}
          /\ HandlerFault <=> Get(response).statusCode = 500
          /\ HandlerFault =>
                /\ ~IsNone(caught)
                /\ DOMAIN BodyOf(Get(response)) = {"error"}
                /\ Contains(BodyOf(Get(response)).error, Get(caught))
                /\ calls = <<>>
          /\ (~HandlerFault /\ (SearchFailed \/ GenerationFailed)) =>
                /\ Get(response).statusCode = 200
                /\ BodyOf(Get(response)) = Get(result)

\* C7 witness: the bot is constructed and reading the event fails
C7_Witness ==
    /\ HandlerReturned
    /\ ~IsNone(bot.model_config)
    /\ ~IsNone(caught)
    /\ Get(response).statusCode = 500

-----------------------------------------------------------------------------
(* Properties of the configuration, checked under SpecConfig *)

Credentials == {"AWS_ACCESS_KEY_ID", "AWS_SECRET_ACCESS_KEY"}

\* the constructor has run
Constructed == pc \in {"idle", "failed"}

CredentialMissing == \E n \in Credentials : ~Truthy(env[n])

OtherSettingsAbsent == \A n \in EnvVars \ Credentials : IsNone(env[n])

\* C8: construction fails with the credentials error whenever a credential
\* is missing or empty, leaving no client and no model configuration; with
\* both credentials and nothing else set it succeeds with region us-east-1,
\* max_tokens 2000, temperature 0.7 and min_confidence_score 0.3.
C8_CredentialsRequiredDefaultsApplied ==
    Constructed =>
        /\ CredentialMissing =>
              /\ pc = "failed"
              /\ raised = Some(CREDENTIALS_ERROR)
              /\ IsNone(bot.bedrock_client)
              /\ IsNone(bot.kendra_client)
              /\ IsNone(bot.model_config)
        /\ (~CredentialMissing /\ OtherSettingsAbsent) =>
              /\ pc = "idle"
              /\ IsNone(raised)
              /\ ~IsNone(bot.bedrock_client)
              /\ ~IsNone(bot.kendra_client)
              /\ Get(bot.aws_config).region_name = <<"us-east-1">>
              /\ Get(bot.model_config).max_tokens = 2000
              /\ FloatEq(Get(bot.model_config).temperature, 7, 10)
              /\ FloatEq(Get(bot.model_config).min_confidence_score, 3, 10)

\* C8 witness: construction has failed with the access key id set and the
\* secret access key empty
C8_Witness ==
    /\ pc = "failed"
    /\ Truthy(env["AWS_ACCESS_KEY_ID"])
    /\ env["AWS_SECRET_ACCESS_KEY"] = Some(<<>>)

\* the values of the credentials that are set
CredentialValues == {Get(env[n]) : n \in {c \in Credentials : Truthy(env[c])}}

\* line shows the whole of v, or an end of v longer than 4 characters
Unmasked(line, v) ==
    \/ Contains(line, v)
    \/ \E k \in 5..Len(v) : Contains(line, LastN(v, k))

\* C9: no line printed or logged by configuration loading or by the
\* diagnostic script shows a credential value whole, or more than its last 4
\* characters.
C9_CredentialsNeverUnmasked ==
    \A v \in CredentialValues :
        /\ \A i \in 1..Len(printed) : ~Unmasked(printed[i], v)
        /\ \A i \in 1..Len(logged) : ~Unmasked(logged[i], v)

-----------------------------------------------------------------------------
(* Sequencing of the remote calls of one invocation, checked under Spec *)

\* how many calls of the invocation went to service
CallCount(service) ==
    Cardinality({i \in 1..Len(calls) : calls[i].service = service})

\* C11: one invocation of get_compliance_answer is one sequential pass: the
\* search service is called once when use_rag is true and never otherwise,
\* first of all calls; the generation service is called once, last, and only
\* when the search call (if any) has returned or raised; no call is repeated
\* after a failure.
C11_OnePassNoRetry ==
    /\ pc = "idle" => calls = <<>>
    /\ pc # "idle" =>
          /\ CallCount("kendra") = (IF use_rag THEN 1 ELSE 0)
          /\ use_rag => calls[1] = RemoteCall("kendra", question)
          /\ CallCount("bedrock") = (IF pc = "kendra" THEN 0 ELSE 1)
          /\ Len(calls) = CallCount("kendra") + CallCount("bedrock")
          /\ pc = "kendra" => ~SearchEnded /\ IsNone(bedrock_response)
          /\ pc = "bedrock" => IsNone(bedrock_response)
          /\ CallCount("bedrock") = 1 =>
                /\ calls[Len(calls)].service = "bedrock"
                /\ use_rag <=> SearchEnded
          /\ pc = "done" => ~IsNone(bedrock_response)

\* C11 witness: an invocation with use_rag true has returned after the search
\* call and then the generation call both raised, with two calls issued
C11_Witness ==
    /\ Returned /\ use_rag
    /\ SearchFailed /\ GenerationFailed
    /\ Len(calls) = 2
    /\ calls[1].service = "kendra" /\ calls[2].service = "bedrock"

-----------------------------------------------------------------------------
(* The interactive loop, checked under SpecCli *)

\* a line that is one of the three words, letter for letter
IsQuitWord(line) == line \in QUIT_WORDS

\* a line that is one of the three words once stripped and lowercased
IsQuitLine(line) == lower(strip(line)) \in QUIT_WORDS

\* a line with nothing but whitespace on it
IsBlankLine(line) == strip(line) = <<>>

\* positions of the lines read so far that end the loop
QuitWordPositions == {i \in 1..Len(consumed) : IsQuitWord(consumed[i])}
QuitLinePositions == {i \in 1..Len(consumed) : IsQuitLine(consumed[i])}

\* positions of the lines read so far that are questions, when the lines at
\* the positions of quits end the loop
QuestionPositions(quits) ==
    {i \in 1..Len(consumed) : i \notin quits /\ ~IsBlankLine(consumed[i])}

\* the k-th smallest position of the set
Nth(positions, k) ==
    CHOOSE i \in positions : Cardinality({j \in positions : j < i}) = k - 1

\* the calls of get_compliance_answer are those of the questions read so far:
\* one each, on the stripped line, with retrieval enabled, in input order
AskedFor(questions) ==
    /\ Len(asked) = Cardinality(questions)
    /\ \A k \in 1..Len(asked) :
          asked[k] = [question |-> strip(consumed[Nth(questions, k)]),
                      use_rag |-> TRUE]

\* a quit line is the last line read and leaves the loop ended
EndsAt(quits) ==
    /\ \A i \in quits : i = Len(consumed)
    /\ quits # {} => pc = "exited"

\* the step that reads a line
ReadsLine == consumed' # consumed

\* C12 as stated: a line equal to quit, exit or q ends the loop and no later
\* line is read, a blank line starts no pass, and every other non-empty line
\* starts exactly one pass with retrieval enabled, in input order.
C12_QuitBlankOrOnePass ==
    /\ EndsAt(QuitWordPositions)
    /\ AskedFor(QuestionPositions(QuitWordPositions))

\* C12: once the bot is constructed, for every sequence of input lines: a
\* line that is quit, exit or q after stripping surrounding whitespace and
\* lowercasing ends the loop and no later line is read; a line empty after
\* stripping starts no pass and the loop prompts again; every other line
\* starts exactly one get_compliance_answer call on the stripped line with
\* retrieval enabled, in input order, before the next line is read.
C12_StrippedLowercasedQuitBlankOrOnePass ==
    /\ [](/\ EndsAt(QuitLinePositions)
          /\ AskedFor(QuestionPositions(QuitLinePositions))
          /\ consumed # <<>> => IsNone(raised) /\ bot # NoBot)
    /\ [][/\ ReadsLine =>
                /\ pc = "prompting"
                /\ Len(consumed') = Len(consumed) + 1
                /\ SubSeq(consumed', 1, Len(consumed)) = consumed
                /\ LET line == consumed'[Len(consumed')]
                   IN IF IsQuitLine(line) THEN pc' = "exited" /\ asked' = asked
                      ELSE IF IsBlankLine(line)
                      THEN pc' = "prompting" /\ asked' = asked
                      ELSE /\ pc' = "kendra"
                           /\ calls' = Append(calls, RemoteCall("kendra", strip(line)))
                           /\ Len(asked') = Len(asked) + 1
          /\ ~ReadsLine => asked' = asked
          /\ pc = "exited" => pc' = "exited" /\ consumed' = consumed]_vars

\* a padded blank line, a padded question and a capitalised quit have been
\* read: one pass has run to its end and the loop is over
C12_Witness ==
    /\ pc = "exited"
    /\ consumed = << <<" ">>, <<" ", "What is KYC?">>, <<"QUIT">> >>
    /\ asked = << [question |-> <<"What is KYC?">>, use_rag |-> TRUE] >>
    /\ ~IsNone(result) /\ Get(result).question = <<"What is KYC?">>

====
